---- MODULE Spec2Model ----
(***************************************************************************)
(* A model of gen_file-context: the path escaper, the file and directory   *)
(* classifiers, the existing-contexts index and the parallel pipeline of   *)
(* process_file_contexts with its progress reporter.                       *)
(*                                                                         *)
(* Strings are TLA+ strings; a character is a string of length 1.          *)
(***************************************************************************)
EXTENDS Naturals, Integers, Sequences, FiniteSets, TLC

VARIABLES
    matches,            \* the command line: mode, fstype, partition, threads, quiet
    alive,              \* the process has not exited
    error,              \* the message of a configuration error, or ""
    config,             \* Config: mode, fstype, partition, cores, silent
    tree,               \* the entries under extracted_dir, in WalkDir order
    file_exists,        \* whether the contexts file exists on disk
    file_lines,         \* the lines of the contexts file on disk
    second,             \* FALSE in the first run, TRUE in the re-run
    pc,                 \* position of the orchestrating thread
    existing_contexts,  \* HashSet<String> read from the contexts file
    files_to_process,   \* Vec<PathBuf> collected from the tree
    missing_count,      \* result of count_missing_entries
    show_progress,      \* ProgressTracker.show_progress
    chunks,             \* Vec<Vec<PathBuf>>
    handles,            \* number of workers spawned so far
    wpc,                \* per worker: "run" | "done" (Ok) | "err" (Err)
    wpos,               \* per worker: paths of its chunk visited so far
    results,            \* per worker: its local Vec<String>
    channel,            \* batches sent on the mpsc channel, in send order
    joined,             \* number of handles joined so far
    opened,             \* the contexts file is open for append
    received,           \* batches taken from the channel by the receive loop
    batch,              \* rest of the batch being written by the receive loop
    appended,           \* lines appended to the contexts file by this run
    current,            \* ProgressTracker.current (the shared counter)
    rpc,                \* reporter thread: "none" | "loop" | "done"
    last_count,         \* reporter's last_count
    bar,                \* last call of progress_bar: <<progress, total, caller>>
    ppc,                \* position of a single function call: "off" | "call" | "ret"
    arg,                \* the call's arguments
    ret                 \* the call's return value

pipeVars == <<matches, alive, error, received, config, tree, file_exists, file_lines, second, pc,
              existing_contexts, files_to_process, missing_count,
              show_progress, chunks, handles, wpc, wpos, results, channel,
              joined, opened, batch, appended, current, rpc, last_count, bar>>
callVars == <<ppc, arg, ret>>
vars == <<pipeVars, callVars>>

----------------------------------------------------------------------------
(* Bounds *)

MaxCores == 2       \* thread counts 0..MaxCores
MaxFiles == 3       \* entries in the scanned tree
MaxLen   == 3       \* length of the strings handed to escape_regex
MaxDepth == 3       \* segments of the paths handed to the classifiers

----------------------------------------------------------------------------
(* Strings *)

Char(s, i) == SubSeq(s, i, i)

\* str::contains
Contains(s, sub) ==
    \E i \in 1..(Len(s) - Len(sub) + 1) : SubSeq(s, i, i + Len(sub) - 1) = sub

WhiteSpace == {" ", "\t"}

RECURSIVE TrimStart(_)
TrimStart(s) ==
    IF s # "" /\ Char(s, 1) \in WhiteSpace
    THEN TrimStart(SubSeq(s, 2, Len(s)))
    ELSE s

RECURSIVE TrimEnd(_)
TrimEnd(s) ==
    IF s # "" /\ Char(s, Len(s)) \in WhiteSpace
    THEN TrimEnd(SubSeq(s, 1, Len(s) - 1))
    ELSE s

\* str::trim
Trim(s) == TrimEnd(TrimStart(s))

\* the characters of s from position i up to the next white space
RECURSIVE TakeTokenFrom(_, _)
TakeTokenFrom(s, i) ==
    IF i > Len(s) \/ Char(s, i) \in WhiteSpace
    THEN ""
    ELSE Char(s, i) \o TakeTokenFrom(s, i + 1)

TakeToken(s) == TakeTokenFrom(s, 1)

\* line.split_whitespace().next(): the set holding the first token, or {}
FirstToken(line) ==
    LET t == TakeToken(TrimStart(line)) IN IF t = "" THEN {} ELSE {t}

----------------------------------------------------------------------------
(* utils/regex_utils.rs *)

MetaChars == {"[", "]", ".", "^", "$", "*", "+", "?", "{", "}", "|", "(", ")"}

RECURSIVE escape_loop(_, _, _)
escape_loop(s, i, result) ==
    IF i > Len(s) THEN result
    ELSE LET c == Char(s, i) IN
         escape_loop(s, i + 1,
                     (IF c \in MetaChars THEN result \o "\\" ELSE result) \o c)

RECURSIVE escape_loop_all(_, _, _)
escape_loop_all(s, i, result) ==
    IF i > Len(s) THEN result
    ELSE LET c == Char(s, i) IN
         escape_loop_all(s, i + 1,
                     (IF c \in MetaChars \cup {"\\"} THEN result \o "\\" ELSE result) \o c)

\* a slip: the backslash is treated as a metacharacter too
escape_regex_backslash(s) == escape_loop_all(s, 1, "")

escape_regex(s) == escape_loop(s, 1, "")

----------------------------------------------------------------------------
(* config/types.rs *)

FsTypes == {"Ext4", "Erofs", "F2fs"}
Modes == {"All", "Bin"}

folder_pattern(fstype) == IF fstype = "Ext4" THEN "(/.*)?" ELSE ""

UpperCase == "ABCDEFGHIJKLMNOPQRSTUVWXYZ"
LowerCase == "abcdefghijklmnopqrstuvwxyz"

\* str::to_lowercase, on ASCII
RECURSIVE ToLower(_)
ToLower(s) ==
    IF s = "" THEN ""
    ELSE LET c == Char(s, 1)
             up == {i \in 1..Len(UpperCase) : Char(UpperCase, i) = c}
         IN  (IF up = {} THEN c ELSE Char(LowerCase, CHOOSE i \in up : TRUE))
             \o ToLower(SubSeq(s, 2, Len(s)))

\* FilesystemType::from_str: the set holding the type, {} for Err
fstype_from_str(s) ==
    LET l == ToLower(s) IN
    IF l = "ext4" THEN {"Ext4"}
    ELSE IF l = "erofs" THEN {"Erofs"}
    ELSE IF l = "f2fs" THEN {"F2fs"}
    ELSE {}

Digits == "0123456789"

IsDigit(c) == \E i \in 1..Len(Digits) : Char(Digits, i) = c

DigitValue(c) == (CHOOSE i \in 1..Len(Digits) : Char(Digits, i) = c) - 1

RECURSIVE DecimalValue(_, _)
DecimalValue(s, acc) ==
    IF s = "" THEN acc
    ELSE DecimalValue(SubSeq(s, 2, Len(s)), 10 * acc + DigitValue(Char(s, 1)))

\* str::parse::<usize>: an optional "+" and decimal digits; the set holding
\* the value, {} for Err
parse_usize(s) ==
    LET d == IF s # "" /\ Char(s, 1) = "+" THEN SubSeq(s, 2, Len(s)) ELSE s IN
    IF d # "" /\ (\A i \in 1..Len(d) : IsDigit(Char(d, i)))
    THEN {DecimalValue(d, 0)}
    ELSE {}

----------------------------------------------------------------------------
(* processor/context_processor.rs: the classifiers *)

VendorOrOdm(partition) == Contains(partition, "vendor") \/ Contains(partition, "odm")

file_context(processed_path, partition) ==
    IF Contains(processed_path, "/bin/hw/")
    THEN "u:object_r:hal_allocator_default_exec:s0"
    ELSE IF Contains(processed_path, "/bin/")
    THEN IF ~Contains(partition, "vendor") /\ ~Contains(partition, "odm")
         THEN "u:object_r:system_file:s0"
         ELSE "u:object_r:vendor_qti_init_shell_exec:s0"
    ELSE IF ~Contains(partition, "vendor") /\ ~Contains(partition, "odm")
            /\ (Contains(processed_path, "/lib/") \/ Contains(processed_path, "/lib64/"))
    THEN "u:object_r:system_lib_file:s0"
    ELSE IF Contains(partition, "vendor") \/ Contains(partition, "odm")
    THEN IF Contains(processed_path, "/etc/")
         THEN "u:object_r:vendor_configs_file:s0"
         ELSE IF Contains(processed_path, "/firmware/")
         THEN "u:object_r:vendor_firmware_file:s0"
         ELSE IF Contains(processed_path, "/app/") \/ Contains(processed_path, "/priv-app/")
         THEN "u:object_r:vendor_app_file:s0"
         ELSE IF Contains(processed_path, "/framework/")
         THEN "u:object_r:vendor_framework_file:s0"
         ELSE IF Contains(processed_path, "/overlay/")
         THEN "u:object_r:vendor_overlay_file:s0"
         ELSE "u:object_r:vendor_file:s0"
    ELSE "u:object_r:system_file:s0"

\* a slip: the broad /bin/ marker is tested before /bin/hw/
file_context_bin_first(processed_path, partition) ==
    IF Contains(processed_path, "/bin/")
    THEN IF ~Contains(partition, "vendor") /\ ~Contains(partition, "odm")
         THEN "u:object_r:system_file:s0"
         ELSE "u:object_r:vendor_qti_init_shell_exec:s0"
    ELSE file_context(processed_path, partition)

\* a slip: the /etc/ rule is left out of the vendor/odm file rules
file_context_no_etc(processed_path, partition) ==
    IF VendorOrOdm(partition) /\ ~Contains(processed_path, "/bin/")
       /\ Contains(processed_path, "/etc/")
    THEN IF Contains(processed_path, "/firmware/")
         THEN "u:object_r:vendor_firmware_file:s0"
         ELSE IF Contains(processed_path, "/app/") \/ Contains(processed_path, "/priv-app/")
         THEN "u:object_r:vendor_app_file:s0"
         ELSE IF Contains(processed_path, "/framework/")
         THEN "u:object_r:vendor_framework_file:s0"
         ELSE IF Contains(processed_path, "/overlay/")
         THEN "u:object_r:vendor_overlay_file:s0"
         ELSE "u:object_r:vendor_file:s0"
    ELSE file_context(processed_path, partition)

process_files_bin_first(escaped_path, partition) ==
    "/" \o partition \o "/" \o escaped_path \o " "
        \o file_context_bin_first("/" \o escaped_path, partition)

process_files_no_etc(escaped_path, partition) ==
    "/" \o partition \o "/" \o escaped_path \o " "
        \o file_context_no_etc("/" \o escaped_path, partition)

process_files(escaped_path, partition) ==
    "/" \o partition \o "/" \o escaped_path \o " "
        \o file_context("/" \o escaped_path, partition)

dir_context(processed_path, partition) ==
    IF Contains(partition, "vendor") \/ Contains(partition, "odm")
    THEN IF Contains(processed_path, "/etc")
         THEN "u:object_r:vendor_configs_file:s0"
         ELSE IF Contains(processed_path, "/firmware")
         THEN "u:object_r:vendor_firmware_file:s0"
         ELSE IF Contains(processed_path, "/app") \/ Contains(processed_path, "/priv-app")
         THEN "u:object_r:vendor_app_file:s0"
         ELSE IF Contains(processed_path, "/framework")
         THEN "u:object_r:vendor_framework_file:s0"
         ELSE IF Contains(processed_path, "/overlay")
         THEN "u:object_r:vendor_overlay_file:s0"
         ELSE "u:object_r:vendor_file:s0"
    ELSE "u:object_r:system_file:s0"

\* a slip: the directory rules require the file rules' trailing slash
dir_context_slash(processed_path, partition) ==
    IF Contains(partition, "vendor") \/ Contains(partition, "odm")
    THEN IF Contains(processed_path, "/etc/")
         THEN "u:object_r:vendor_configs_file:s0"
         ELSE IF Contains(processed_path, "/firmware/")
         THEN "u:object_r:vendor_firmware_file:s0"
         ELSE IF Contains(processed_path, "/app/") \/ Contains(processed_path, "/priv-app/")
         THEN "u:object_r:vendor_app_file:s0"
         ELSE IF Contains(processed_path, "/framework/")
         THEN "u:object_r:vendor_framework_file:s0"
         ELSE IF Contains(processed_path, "/overlay/")
         THEN "u:object_r:vendor_overlay_file:s0"
         ELSE "u:object_r:vendor_file:s0"
    ELSE "u:object_r:system_file:s0"

process_dirs_slash(escaped_path, partition, fstype) ==
    "/" \o partition \o "/" \o escaped_path \o folder_pattern(fstype) \o " "
        \o dir_context_slash("/" \o escaped_path, partition)

process_dirs(escaped_path, partition, fstype) ==
    "/" \o partition \o "/" \o escaped_path \o folder_pattern(fstype) \o " "
        \o dir_context("/" \o escaped_path, partition)

----------------------------------------------------------------------------
(* processor/context_processor.rs: the helpers of the pipeline *)

\* get_partition_name: the file name of extracted_dir
get_partition_name(cfg) == cfg.partition

\* read_existing_contexts: the first token of every line, {} without a file
read_existing_contexts(exists, lines) ==
    IF exists
    THEN UNION {FirstToken(lines[i]) : i \in 1..Len(lines)}
    ELSE {}

\* collect_files_to_process: every entry (All), or those whose relative path
\* is UTF-8 and contains /bin/ (Bin)
RECURSIVE collect_files_to_process(_, _)
collect_files_to_process(cfg, entries) ==
    IF entries = <<>> THEN <<>>
    ELSE LET e == Head(entries) IN
         (IF cfg.mode = "All" \/ (e.utf8 /\ Contains(e.path, "/bin/"))
          THEN <<e>> ELSE <<>>)
         \o collect_files_to_process(cfg, Tail(entries))

full_context_trimmed(path, partition) ==
    Trim("/" \o partition \o "/" \o escape_regex(path) \o " ")

folder_context_trimmed(path, partition, fstype) ==
    Trim("/" \o partition \o "/" \o escape_regex(path) \o folder_pattern(fstype) \o " ")

\* the test shared by count_missing_entries and process_chunk
IsMissing(e, cfg, partition, existing) ==
    /\ e.utf8
    /\ e.path # ""
    /\ full_context_trimmed(e.path, partition) \notin existing
    /\ folder_context_trimmed(e.path, partition, cfg.fstype) \notin existing

count_missing_entries(files, cfg, partition, existing) ==
    Cardinality({i \in 1..Len(files) : IsMissing(files[i], cfg, partition, existing)})

\* a slip: the worker does not consult the Existing Context Set
visit_path_no_dedup(e, cfg, partition, existing) ==
    IF e.utf8 /\ e.path # ""
    THEN IF e.is_file
         THEN <<process_files(escape_regex(e.path), partition)>>
         ELSE <<process_dirs(escape_regex(e.path), partition, cfg.fstype)>>
    ELSE <<>>

\* one iteration of process_chunk's loop: the lines pushed to results
visit_path(e, cfg, partition, existing) ==
    IF IsMissing(e, cfg, partition, existing)
    THEN IF e.is_file
         THEN <<process_files(escape_regex(e.path), partition)>>
         ELSE <<process_dirs(escape_regex(e.path), partition, cfg.fstype)>>
    ELSE <<>>

\* a slip: the reporter is started whatever the flags say
show_always(silent, missing) == TRUE

\* line 34: the show_progress argument of ProgressTracker::new
show_progress_arg(silent, missing) == ~silent /\ missing > 0

\* line 36, for cores > 0
chunk_size_of(total, cores) == (total + cores - 1) \div cores

\* a slip: the counter is bumped a second time
increment_twice(c) == c + 2

\* bar.rs 28-31: ProgressTracker::increment, under the mutex
increment(c) == c + 1

Min(a, b) == IF a < b THEN a ELSE b

\* a slip: chunks_exact, which leaves out a shorter last chunk
RECURSIVE ChunksExact(_, _)
ChunksExact(files, chunk_size) ==
    IF Len(files) < chunk_size THEN <<>>
    ELSE <<SubSeq(files, 1, chunk_size)>>
         \o ChunksExact(SubSeq(files, chunk_size + 1, Len(files)), chunk_size)

chunks_exact(files, chunk_size) == ChunksExact(files, chunk_size)

\* slice::chunks(chunk_size), chunk_size > 0
RECURSIVE Chunks(_, _)
Chunks(files, chunk_size) ==
    IF files = <<>> THEN <<>>
    ELSE <<SubSeq(files, 1, Min(chunk_size, Len(files)))>>
         \o Chunks(SubSeq(files, chunk_size + 1, Len(files)), chunk_size)

\* lines 37-40: the chunks, each copied to a Vec
chunks_of(files, chunk_size) == Chunks(files, chunk_size)

----------------------------------------------------------------------------
(* The inputs of a run: the tree, the configuration, the contexts file *)

\* A maximal tree in WalkDir order (a directory before its contents);
\* parent is the index of the entry's directory, 0 at the top level.
Universe == <<
    [path |-> "bin",      utf8 |-> TRUE,  is_file |-> FALSE, parent |-> 0],
    [path |-> "bin/sh",   utf8 |-> TRUE,  is_file |-> TRUE,  parent |-> 1],
    [path |-> "a b",      utf8 |-> TRUE,  is_file |-> TRUE,  parent |-> 0],
    [path |-> "lib.so",   utf8 |-> TRUE,  is_file |-> TRUE,  parent |-> 0],
    [path |-> "x",        utf8 |-> TRUE,  is_file |-> FALSE, parent |-> 0],
    [path |-> "x/bin",    utf8 |-> TRUE,  is_file |-> FALSE, parent |-> 5],
    [path |-> "x/bin/ls", utf8 |-> TRUE,  is_file |-> TRUE,  parent |-> 6],
    [path |-> "<non-utf8>", utf8 |-> FALSE, is_file |-> TRUE, parent |-> 0] >>

RECURSIVE TreeOf(_, _)
TreeOf(S, i) ==
    IF i > Len(Universe) THEN <<>>
    ELSE (IF i \in S THEN <<Universe[i]>> ELSE <<>>) \o TreeOf(S, i + 1)

Trees ==
    {TreeOf(S, 1) : S \in {S \in SUBSET (1..Len(Universe)) :
        /\ Cardinality(S) <= MaxFiles
        /\ \A i \in S : Universe[i].parent = 0 \/ Universe[i].parent \in S}}

PipePartitions == {"system", "vendor"}

\* the values Config::from_matches can build
Configs == [mode : Modes, fstype : FsTypes, partition : PipePartitions,
            cores : 0..MaxCores, silent : BOOLEAN]

\* the decimal numeral of n <= 9
DigitStr(n) == Char(Digits, n + 1)

ThreadArgs == {DigitStr(n) : n \in 0..MaxCores} \cup {"x", "-1"}
FsArgs == {"ext4", "EROFS", "f2fs", "ntfs"}

\* The command lines: -a, -b or neither; -f; -p (whose last component names
\* the partition, and which may not exist); -t; -q.
Matches == [mode : {"all", "bin", "none"}, fstype : FsArgs,
            partition : PipePartitions, dir_exists : BOOLEAN,
            threads : ThreadArgs, quiet : BOOLEAN]

\* the value of config before Config::from_matches has built it
NoConfig == [mode |-> "All", fstype |-> "Ext4", partition |-> "",
             cores |-> 0, silent |-> FALSE]

\* Contexts files found at the start: none, an empty one, one holding the
\* folder pattern of bin, one holding a blank line and an indented entry.
InitialFiles(partition) ==
    { [exists |-> FALSE, lines |-> <<>>],
      [exists |-> TRUE,  lines |-> <<>>],
      [exists |-> TRUE,
       lines |-> <<"/" \o partition \o "/bin(/.*)? u:object_r:system_file:s0">>],
      [exists |-> TRUE,
       lines |-> <<"", "  /" \o partition \o "/bin/sh\tu:object_r:system_file:s0">>] }

----------------------------------------------------------------------------
(* process_file_contexts *)

CallOff == ppc = "off" /\ arg = [fn |-> "none"] /\ ret = ""

Init ==
    /\ matches \in Matches
    /\ alive = TRUE
    /\ error = ""
    /\ config = NoConfig
    /\ tree \in Trees
    /\ ~matches.dir_exists => tree = <<>>
    /\ \E f \in InitialFiles(matches.partition) :
          file_exists = f.exists /\ file_lines = f.lines
    /\ second = FALSE
    /\ pc = "main"
    /\ received = 0
    /\ existing_contexts = {} /\ files_to_process = <<>> /\ missing_count = 0
    /\ show_progress = FALSE /\ chunks = <<>> /\ handles = 0
    /\ wpc = <<>> /\ wpos = <<>> /\ results = <<>> /\ channel = <<>>
    /\ joined = 0 /\ opened = FALSE /\ batch = <<>> /\ appended = <<>>
    /\ current = 0 /\ rpc = "none" /\ last_count = 0 /\ bar = <<>>
    /\ CallOff

\* config/types.rs 46-82 and main.rs 23-24: build the Config or fail with a
\* message; the first failing check decides
FromMatches ==
    /\ pc = "main"
    /\ LET fstype == fstype_from_str(matches.fstype)
           cores == parse_usize(matches.threads)
           fail(msg) == /\ error' = msg
                        /\ pc' = "config_error"
                        /\ UNCHANGED config
       IN  IF matches.mode = "none"
           THEN fail("Must specify either -a or -b mode")
           ELSE IF fstype = {}
           THEN fail("Unsupported filesystem type: " \o matches.fstype)
           ELSE IF cores = {}
           THEN fail("Invalid thread count")
           ELSE IF ~matches.dir_exists
           THEN fail("Partition directory does not exist")
           ELSE /\ config' = [mode |-> IF matches.mode = "bin" THEN "Bin" ELSE "All",
                               fstype |-> CHOOSE f \in fstype : TRUE,
                               partition |-> matches.partition,
                               cores |-> CHOOSE n \in cores : TRUE,
                               silent |-> matches.quiet]
                /\ pc' = "start"
                /\ UNCHANGED error
    /\ UNCHANGED <<tree, file_exists, file_lines, second, existing_contexts,
                   files_to_process, missing_count, show_progress, chunks,
                   handles, wpc, wpos, results, channel, joined, opened, batch,
                   appended, current, rpc, last_count, bar, callVars, matches,
                   alive, received>>

\* lines 13-34: read the index, collect, pre-count, report or short-circuit,
\* create the ProgressTracker (which spawns the reporter when showing)
Prepare ==
    /\ pc = "start"
    /\ LET partition == get_partition_name(config)
           existing == read_existing_contexts(file_exists, file_lines)
           files == collect_files_to_process(config, tree)
           missing == count_missing_entries(files, config, partition, existing)
           show == show_progress_arg(config.silent, missing)
       IN  /\ existing_contexts' = existing
           /\ files_to_process' = files
           /\ missing_count' = missing
           /\ IF ~config.silent /\ missing = 0
              THEN /\ pc' = "done"
                   /\ UNCHANGED <<show_progress, rpc>>
              ELSE /\ pc' = "partition"
                   /\ show_progress' = show
                   /\ rpc' = IF show THEN "loop" ELSE "none"
    /\ UNCHANGED <<config, tree, file_exists, file_lines, second, chunks,
                   handles, wpc, wpos, results, channel, joined, opened, batch,
                   appended, current, last_count, bar, callVars, matches, alive, error, received>>

\* lines 36-42: a division by zero (cores = 0) and chunks(0) both panic
Partition ==
    /\ pc = "partition"
    /\ IF config.cores = 0
       THEN pc' = "panicked" /\ UNCHANGED chunks
       ELSE LET chunk_size == chunk_size_of(Len(files_to_process), config.cores)
            IN  IF chunk_size = 0
                THEN pc' = "panicked" /\ UNCHANGED chunks
                ELSE /\ chunks' = chunks_of(files_to_process, chunk_size)
                     /\ pc' = "spawn"
    /\ UNCHANGED <<config, tree, file_exists, file_lines, second,
                   existing_contexts, files_to_process, missing_count,
                   show_progress, handles, wpc, wpos, results, channel, joined,
                   opened, batch, appended, current, rpc, last_count, bar,
                   callVars, matches, alive, error, received>>

\* lines 44-57: thread::spawn for the next chunk
Spawn ==
    /\ pc = "spawn"
    /\ handles < Len(chunks)
    /\ handles' = handles + 1
    /\ wpc' = Append(wpc, "run")
    /\ wpos' = Append(wpos, 0)
    /\ results' = Append(results, <<>>)
    /\ pc' = IF handles + 1 = Len(chunks) THEN "join" ELSE "spawn"
    /\ UNCHANGED <<config, tree, file_exists, file_lines, second,
                   existing_contexts, files_to_process, missing_count,
                   show_progress, chunks, channel, joined, opened, batch,
                   appended, current, rpc, last_count, bar, callVars, matches, alive, error, received>>

\* lines 176-206: worker w visits the next path of its chunk and increments
\* the shared counter
WorkerStep(w) ==
    /\ alive
    /\ wpc[w] = "run"
    /\ wpos[w] < Len(chunks[w])
    /\ LET e == chunks[w][wpos[w] + 1] IN
       results' = [results EXCEPT ![w] =
           @ \o visit_path(e, config, get_partition_name(config), existing_contexts)]
    /\ wpos' = [wpos EXCEPT ![w] = @ + 1]
    /\ current' = increment(current)
    /\ UNCHANGED <<config, tree, file_exists, file_lines, second, pc,
                   existing_contexts, files_to_process, missing_count,
                   show_progress, chunks, handles, wpc, channel, joined, opened,
                   batch, appended, rpc, last_count, bar, callVars, matches, alive, error, received>>

\* a slip: a channel with one slot, a batch sent while it is full is lost
send_one_slot(queue, results_batch) ==
    IF queue = <<>> THEN <<results_batch>> ELSE queue

\* line 54: Sender::send on the unbounded mpsc channel
send(queue, results_batch) == Append(queue, results_batch)

\* the pc values at which process_file_contexts or main has returned
Returned == {"done", "failed", "panicked", "config_error"}

\* lines 54-55: worker w sends its batch and ends; the send fails when the
\* receiver is gone, which is when process_file_contexts has returned
WorkerSend(w) ==
    /\ alive
    /\ wpc[w] = "run"
    /\ wpos[w] = Len(chunks[w])
    /\ IF pc \in Returned
       THEN /\ wpc' = [wpc EXCEPT ![w] = "err"]
            /\ UNCHANGED channel
       ELSE /\ channel' = send(channel, results[w])
            /\ wpc' = [wpc EXCEPT ![w] = "done"]
    /\ UNCHANGED <<config, tree, file_exists, file_lines, second, pc,
                   existing_contexts, files_to_process, missing_count,
                   show_progress, chunks, handles, wpos, results, joined,
                   opened, batch, appended, current, rpc, last_count, bar,
                   callVars, matches, alive, error, received>>

\* a slip: the handle is not waited for
JoinReadyNoWait(w) == TRUE

\* handle.join() returns once the thread has ended
JoinReady(w) == wpc[w] \in {"done", "err"}

\* lines 59-61: join the next handle, in spawn order; an Err result is
\* returned at once by the ? operator
Join ==
    /\ pc = "join"
    /\ JoinReady(joined + 1)
    /\ joined' = joined + 1
    /\ pc' = IF wpc[joined + 1] = "err" THEN "failed"
             ELSE IF joined + 1 = handles THEN "open" ELSE "join"
    /\ UNCHANGED <<config, tree, file_exists, file_lines, second,
                   existing_contexts, files_to_process, missing_count,
                   show_progress, chunks, handles, wpc, wpos, results, channel,
                   opened, batch, appended, current, rpc, last_count, bar,
                   callVars, matches, alive, error, received>>

\* lines 63-68: drop(tx), then open for append, creating the file; the open
\* may fail with an I/O error, which is returned
Open ==
    /\ pc = "open"
    /\ \/ /\ opened' = TRUE /\ file_exists' = TRUE /\ pc' = "recv"
       \/ /\ pc' = "failed" /\ UNCHANGED <<opened, file_exists>>
    /\ UNCHANGED <<config, tree, file_lines, second, existing_contexts,
                   files_to_process, missing_count, show_progress, chunks,
                   handles, wpc, wpos, results, channel, joined, batch,
                   appended, current, rpc, last_count, bar, callVars, matches, alive, error, received>>

\* line 70: the receive loop takes the next batch, in send order
Recv ==
    /\ pc = "recv"
    /\ batch = <<>>
    /\ channel # <<>>
    /\ batch' = Head(channel)
    /\ channel' = Tail(channel)
    /\ received' = received + 1
    /\ UNCHANGED <<config, tree, file_exists, file_lines, second, pc,
                   existing_contexts, files_to_process, missing_count,
                   show_progress, chunks, handles, wpc, wpos, results, joined,
                   opened, appended, current, rpc, last_count, bar, callVars,
                   matches, alive, error>>

\* lines 71-73: writeln! of the next line of the batch; a write failure is
\* returned, the lines written before it stay on disk
WriteLine ==
    /\ pc = "recv"
    /\ batch # <<>>
    /\ \/ /\ file_lines' = Append(file_lines, Head(batch))
          /\ appended' = Append(appended, Head(batch))
          /\ batch' = Tail(batch)
          /\ UNCHANGED <<pc, opened>>
       \/ /\ pc' = "failed"
          /\ opened' = FALSE
          /\ UNCHANGED <<file_lines, appended, batch>>
    /\ UNCHANGED <<config, tree, file_exists, second, existing_contexts,
                   files_to_process, missing_count, show_progress, chunks,
                   handles, wpc, wpos, results, channel, joined, current, rpc,
                   last_count, bar, callVars, matches, alive, error, received>>

\* lines 70-80 and bar.rs 33-39: every sender is gone and the channel is
\* empty, so the loop ends; finish() draws the bar when showing; return Ok
Finish ==
    /\ pc = "recv"
    /\ batch = <<>>
    /\ channel = <<>>
    /\ bar' = IF show_progress
              THEN <<current, Len(files_to_process), "finish">>
              ELSE bar
    /\ opened' = FALSE
    /\ pc' = "done"
    /\ UNCHANGED <<config, tree, file_exists, file_lines, second,
                   existing_contexts, files_to_process, missing_count,
                   show_progress, chunks, handles, wpc, wpos, results, channel,
                   joined, batch, appended, current, rpc, last_count,
                   callVars, matches, alive, error, received>>

\* bar.rs 46-62: one round of the reporter's loop: sleep, sample the counter
\* under the lock, draw, and stop once the sample reaches total
ReporterTick ==
    /\ alive
    /\ rpc = "loop"
    /\ LET count == current
           total == Len(files_to_process)
       IN  /\ last_count' = IF count < last_count THEN last_count ELSE count
           /\ IF count >= total
              THEN bar' = <<total, total, "reporter">> /\ rpc' = "done"
              ELSE bar' = <<last_count', total, "reporter">> /\ UNCHANGED rpc
    /\ UNCHANGED <<config, tree, file_exists, file_lines, second, pc,
                   existing_contexts, files_to_process, missing_count,
                   show_progress, chunks, handles, wpc, wpos, results, channel,
                   joined, opened, batch, appended, current, callVars, matches, alive, error, received>>

\* main.rs 23-25: main returns and the process exits, which ends every
\* thread still running
Exit ==
    /\ alive
    /\ pc \in Returned
    /\ alive' = FALSE
    /\ UNCHANGED <<config, tree, file_exists, file_lines, second, pc,
                   existing_contexts, files_to_process, missing_count,
                   show_progress, chunks, handles, wpc, wpos, results, channel,
                   joined, opened, batch, appended, current, rpc, last_count,
                   bar, callVars, matches, error, received>>

\* the tool is run again with the same command line on the same tree and the
\* contexts file the first run left
Rerun ==
    /\ pc = "done"
    /\ ~alive
    /\ ~second
    /\ second' = TRUE
    /\ alive' = TRUE
    /\ received' = 0
    /\ config' = NoConfig
    /\ pc' = "main"
    /\ existing_contexts' = {} /\ files_to_process' = <<>> /\ missing_count' = 0
    /\ show_progress' = FALSE /\ chunks' = <<>> /\ handles' = 0
    /\ wpc' = <<>> /\ wpos' = <<>> /\ results' = <<>> /\ channel' = <<>>
    /\ joined' = 0 /\ opened' = FALSE /\ batch' = <<>> /\ appended' = <<>>
    /\ current' = 0 /\ rpc' = "none" /\ last_count' = 0 /\ bar' = <<>>
    /\ UNCHANGED <<tree, file_exists, file_lines, callVars, matches, error>>

Next ==
    \/ FromMatches
    \/ Prepare
    \/ Partition
    \/ Spawn
    \/ \E w \in 1..handles : WorkerStep(w)
    \/ \E w \in 1..handles : WorkerSend(w)
    \/ Join
    \/ Open
    \/ Recv
    \/ WriteLine
    \/ Finish
    \/ ReporterTick
    \/ Exit
    \/ Rerun

Spec == Init /\ [][Next]_vars

\* the steps of the thread that runs main and process_file_contexts
MainThread ==
    \/ FromMatches
    \/ Prepare
    \/ Partition
    \/ Spawn
    \/ Join
    \/ Open
    \/ Recv
    \/ WriteLine
    \/ Finish

\* the steps of the thread spawned for chunk w
WorkerThread(w) ==
    /\ w \in 1..handles
    /\ (WorkerStep(w) \/ WorkerSend(w))

\* Scheduling: the main thread, every spawned worker and the reporter keep
\* running while they have a step to take, and a process whose main has
\* returned exits. Nothing obliges the user to run the tool again.
Fairness ==
    /\ WF_vars(MainThread)
    /\ \A w \in 1..MaxCores : WF_vars(WorkerThread(w))
    /\ WF_vars(ReporterTick)
    /\ WF_vars(Exit)

\* the runs on a full tree of the system partition with a mode, a known
\* filesystem type and an existing directory; the labels play no part in
\* the scheduling
FairInit ==
    /\ Init
    /\ matches.mode # "none"
    /\ matches.fstype = "ext4"
    /\ matches.partition = "system"
    /\ matches.dir_exists
    /\ Len(tree) = MaxFiles

FairSpec == FairInit /\ [][Next]_vars /\ Fairness

----------------------------------------------------------------------------
(* Single calls of the pure functions, on inputs drawn from bounded sets *)

RECURSIVE StringsUpTo(_, _)
StringsUpTo(alphabet, n) ==
    IF n = 0 THEN {""}
    ELSE LET S == StringsUpTo(alphabet, n - 1) IN
         S \cup {s \o c : s \in S, c \in alphabet}

EscapeAlphabet == MetaChars \cup {"\\", "a", "/"}
EscapeInputs == StringsUpTo(EscapeAlphabet, MaxLen)

Segments == {"bin", "hw", "lib", "lib64", "etc", "firmware", "app", "priv-app",
             "framework", "overlay", "retcfoo"}

RECURSIVE PathsUpTo(_)
PathsUpTo(n) ==
    IF n = 1 THEN Segments
    ELSE LET P == PathsUpTo(n - 1) IN
         P \cup {p \o "/" \o s : p \in P, s \in Segments}

ScenarioPaths == {"bin/app_process64", "etc/init/vold.rc", "firmware",
                  "lib64/libc++.so"}
ClassifyPaths == PathsUpTo(MaxDepth) \cup ScenarioPaths
Partitions == {"system", "vendor", "odm_dlkm"}

CallInputs ==
    [fn : {"escape_regex"}, s : EscapeInputs]
    \cup [fn : {"process_files"}, path : ClassifyPaths, partition : Partitions]
    \cup [fn : {"process_dirs"}, path : ClassifyPaths, partition : Partitions,
          fstype : FsTypes]

CallEscapeRegex ==
    /\ ppc = "call" /\ arg.fn = "escape_regex"
    /\ ret' = escape_regex(arg.s)
    /\ ppc' = "ret"
    /\ UNCHANGED <<arg, pipeVars>>

\* process_chunk's call of process_files on the escaped path of a regular file
CallProcessFiles ==
    /\ ppc = "call" /\ arg.fn = "process_files"
    /\ ret' = process_files(escape_regex(arg.path), arg.partition)
    /\ ppc' = "ret"
    /\ UNCHANGED <<arg, pipeVars>>

\* process_chunk's call of process_dirs on the escaped path of a directory
CallProcessDirs ==
    /\ ppc = "call" /\ arg.fn = "process_dirs"
    /\ ret' = process_dirs(escape_regex(arg.path), arg.partition, arg.fstype)
    /\ ppc' = "ret"
    /\ UNCHANGED <<arg, pipeVars>>

PipeOff ==
    /\ matches = [mode |-> "none"] /\ alive = FALSE /\ error = ""
    /\ received = 0
    /\ config = NoConfig
    /\ tree = <<>> /\ file_exists = FALSE /\ file_lines = <<>>
    /\ second = FALSE /\ pc = "off" /\ existing_contexts = {}
    /\ files_to_process = <<>> /\ missing_count = 0 /\ show_progress = FALSE
    /\ chunks = <<>> /\ handles = 0 /\ wpc = <<>> /\ wpos = <<>>
    /\ results = <<>> /\ channel = <<>> /\ joined = 0 /\ opened = FALSE
    /\ batch = <<>> /\ appended = <<>> /\ current = 0 /\ rpc = "none"
    /\ last_count = 0 /\ bar = <<>>

CallInit ==
    /\ PipeOff
    /\ ppc = "call"
    /\ arg \in CallInputs
    /\ ret = ""

CallNext == CallEscapeRegex \/ CallProcessFiles \/ CallProcessDirs

SpecCall == CallInit /\ [][CallNext]_vars

----------------------------------------------------------------------------
(* The claims about the pipeline, checked under Spec *)

Total == Len(files_to_process)

\* the run has a Config and is past lines 13-34
Prepared == pc \notin {"main", "config_error", "start"}

AllWorkersEnded ==
    /\ handles = Len(chunks)
    /\ \A w \in 1..handles : wpc[w] = "done"

\* the line the classifiers give an entry
LineOf(e) ==
    IF e.is_file
    THEN process_files(escape_regex(e.path), get_partition_name(config))
    ELSE process_dirs(escape_regex(e.path), get_partition_name(config), config.fstype)

MissingAt(i) ==
    IsMissing(files_to_process[i], config, get_partition_name(config),
              existing_contexts)

RECURSIVE LinesInOrder(_)
LinesInOrder(i) ==
    IF i > Total THEN <<>>
    ELSE (IF MissingAt(i) THEN <<LineOf(files_to_process[i])>> ELSE <<>>)
         \o LinesInOrder(i + 1)

\* C1: for every thread count >= 1 and every interleaving, the lines a
\* completed run has appended are the lines of the missing paths in the
\* order of the collected sequence (chunk-index order, then in-chunk order).
C1_ChunkIndexOrder ==
    (pc = "done" /\ config.cores >= 1) => appended = LinesInOrder(1)

\* C2: in the re-run on the file the first run produced, the pre-count of
\* missing entries is zero and no line is appended.
C2_SecondRunFindsNothing ==
    (second /\ Prepared) => (missing_count = 0 /\ appended = <<>>)

\* C3: in a run that completed, every missing collected path has exactly one
\* line in the appended lines, every appended line is the line of a missing
\* path, and the number of appended lines is the pre-count.
C3_OneLinePerMissingPath ==
    pc = "done" =>
        /\ Len(appended) = missing_count
        /\ \A i \in 1..Total :
              MissingAt(i) =>
                  Cardinality({k \in 1..Len(appended) :
                                   appended[k] = LineOf(files_to_process[i])}) = 1
        /\ \A k \in 1..Len(appended) :
              \E i \in 1..Total :
                  MissingAt(i) /\ appended[k] = LineOf(files_to_process[i])

\* a completed run that wrote two lines and skipped a path already present
C3_Witness ==
    /\ pc = "done"
    /\ Len(appended) >= 2
    /\ \E i \in 1..Total : files_to_process[i].utf8 /\ ~MissingAt(i)

\* C4: once the pre-count is zero, silent or not, no worker is dispatched and
\* the contexts file is not opened.
C4_ZeroMissingShortCircuits ==
    (Prepared /\ missing_count = 0) => (handles = 0 /\ ~opened)

\* C5: with an empty collected sequence and a thread count >= 1, silent or
\* not, the run does not panic, leaves the contexts file alone and draws no
\* progress bar.
C5_EmptyInputEndsNormally ==
    (Prepared /\ files_to_process = <<>> /\ config.cores >= 1) =>
        (pc # "panicked" /\ ~opened /\ appended = <<>> /\ bar = <<>>)

\* C6: the contexts file is open only when every worker has ended, and it is
\* opened, created and written only by steps of the orchestrating thread taken
\* after every worker has ended and been joined.
C6_FileTouchedAfterJoin ==
    /\ [](opened => AllWorkersEnded)
    /\ [][(opened' # opened \/ file_lines' # file_lines
              \/ file_exists' # file_exists)
          => (pc \in {"open", "recv"} /\ AllWorkersEnded /\ joined = handles)]_vars

\* the file is open with a line written, after two workers have ended
C6_Witness ==
    /\ opened
    /\ handles >= 2
    /\ appended # <<>>

----------------------------------------------------------------------------
(* The claims about the pure functions, checked under SpecCall *)

\* the label of the first rule one of whose markers occurs in path
FirstMatch(rules, path) ==
    LET hit(i) == \E m \in rules[i].markers : Contains(path, m)
        first == CHOOSE i \in 1..Len(rules) : hit(i) /\ \A j \in 1..(i - 1) : ~hit(j)
    IN  rules[first].label

FileRuleTable(partition) ==
    IF Contains(partition, "vendor") \/ Contains(partition, "odm")
    THEN << [markers |-> {"/bin/hw/"}, label |-> "hal_allocator_default_exec"],
            [markers |-> {"/bin/"}, label |-> "vendor_qti_init_shell_exec"],
            [markers |-> {"/etc/"}, label |-> "vendor_configs_file"],
            [markers |-> {"/firmware/"}, label |-> "vendor_firmware_file"],
            [markers |-> {"/app/", "/priv-app/"}, label |-> "vendor_app_file"],
            [markers |-> {"/framework/"}, label |-> "vendor_framework_file"],
            [markers |-> {"/overlay/"}, label |-> "vendor_overlay_file"],
            [markers |-> {""}, label |-> "vendor_file"] >>
    ELSE << [markers |-> {"/bin/hw/"}, label |-> "hal_allocator_default_exec"],
            [markers |-> {"/bin/"}, label |-> "system_file"],
            [markers |-> {"/lib/", "/lib64/"}, label |-> "system_lib_file"],
            [markers |-> {""}, label |-> "system_file"] >>

DirRuleTable(partition) ==
    IF Contains(partition, "vendor") \/ Contains(partition, "odm")
    THEN << [markers |-> {"/etc"}, label |-> "vendor_configs_file"],
            [markers |-> {"/firmware"}, label |-> "vendor_firmware_file"],
            [markers |-> {"/app", "/priv-app"}, label |-> "vendor_app_file"],
            [markers |-> {"/framework"}, label |-> "vendor_framework_file"],
            [markers |-> {"/overlay"}, label |-> "vendor_overlay_file"],
            [markers |-> {""}, label |-> "vendor_file"] >>
    ELSE << [markers |-> {""}, label |-> "system_file"] >>

FolderSuffix == [t \in FsTypes |-> IF t = "Ext4" THEN "(/.*)?" ELSE ""]

ReturnedFrom(fn) == ppc = "ret" /\ arg.fn = fn

\* C7: process_files returns "/<partition>/<escaped_path> u:object_r:<label>:s0"
\* with the label of the first matching file rule on "/" + escaped_path; so
\* bin/app_process64 on system is labelled system_file.
C7_FileRules ==
    ReturnedFrom("process_files") =>
        LET escaped == escape_regex(arg.path) IN
        /\ ret = "/" \o arg.partition \o "/" \o escaped \o " u:object_r:"
                     \o FirstMatch(FileRuleTable(arg.partition), "/" \o escaped)
                     \o ":s0"
        /\ (arg.partition = "system" /\ arg.path = "bin/app_process64")
               => ret = "/system/bin/app_process64 u:object_r:system_file:s0"

\* a file under bin/hw/ whose path also holds /etc/, on an odm partition
C7_Witness ==
    /\ ReturnedFrom("process_files")
    /\ arg.partition = "odm_dlkm"
    /\ arg.path = "bin/hw/etc"
    /\ ret = "/odm_dlkm/bin/hw/etc u:object_r:hal_allocator_default_exec:s0"

VoldRc ==
    /\ ReturnedFrom("process_files")
    /\ arg.partition = "vendor"
    /\ arg.path = "etc/init/vold.rc"

\* C8 as stated: the file etc/init/vold.rc on vendor falls through to the
\* vendor default and is written unescaped.
C8_VendorEtcFileDefault ==
    VoldRc => ret = "/vendor/etc/init/vold.rc u:object_r:vendor_file:s0"

\* C8 as amended: on a vendor/odm partition the /etc/ rule applies to regular
\* files too: a file whose path holds /etc/ and not /bin/ is labelled
\* vendor_configs_file, and etc/init/vold.rc on vendor gives the line
\* "/vendor/etc/init/vold\.rc u:object_r:vendor_configs_file:s0".
C8_VendorEtcFileConfigs ==
    /\ VoldRc => ret = "/vendor/etc/init/vold\\.rc u:object_r:vendor_configs_file:s0"
    /\ ReturnedFrom("process_files") =>
          LET escaped == escape_regex(arg.path) IN
          ( /\ Contains(arg.partition, "vendor") \/ Contains(arg.partition, "odm")
            /\ Contains("/" \o escaped, "/etc/")
            /\ ~Contains("/" \o escaped, "/bin/") )
          => ret = "/" \o arg.partition \o "/" \o escaped
                       \o " u:object_r:vendor_configs_file:s0"

\* process_files has returned for etc/init/vold.rc on vendor
C8_Witness == VoldRc /\ ret # ""

\* C9: process_dirs returns
\* "/<partition>/<escaped_path><folder_suffix> u:object_r:<label>:s0" with the
\* label of the first matching directory rule on "/" + escaped_path and the
\* suffix "(/.*)?" for Ext4, "" for Erofs and F2fs; so the directory firmware
\* on vendor under Ext4 gives "/vendor/firmware(/.*)? ...vendor_firmware_file...".
C9_DirRules ==
    ReturnedFrom("process_dirs") =>
        LET escaped == escape_regex(arg.path) IN
        /\ ret = "/" \o arg.partition \o "/" \o escaped \o FolderSuffix[arg.fstype]
                     \o " u:object_r:"
                     \o FirstMatch(DirRuleTable(arg.partition), "/" \o escaped)
                     \o ":s0"
        /\ (arg.partition = "vendor" /\ arg.path = "firmware" /\ arg.fstype = "Ext4")
               => ret = "/vendor/firmware(/.*)? u:object_r:vendor_firmware_file:s0"

\* the directory etc/app on vendor under Erofs: /etc wins over /app, no suffix
C9_Witness ==
    /\ ReturnedFrom("process_dirs")
    /\ arg.partition = "vendor" /\ arg.path = "etc/app" /\ arg.fstype = "Erofs"
    /\ ret = "/vendor/etc/app u:object_r:vendor_configs_file:s0"

EscapedSet == {"[", "]", ".", "^", "$", "*", "+", "?", "{", "}", "|", "(", ")"}

\* the number of characters of the escaped set among the first i of s
EscapedUpTo(s, i) == Cardinality({j \in 1..i : Char(s, j) \in EscapedSet})

\* C10: escape_regex copies every character in order, inserting one backslash
\* right before each character of the escaped set and nothing else; so the
\* empty string and strings free of those characters come back unchanged.
C10_EscapeRegex ==
    ReturnedFrom("escape_regex") =>
        LET s == arg.s IN
        /\ Len(ret) = Len(s) + EscapedUpTo(s, Len(s))
        /\ \A i \in 1..Len(s) :
              LET at == i + EscapedUpTo(s, i) IN
              /\ Char(ret, at) = Char(s, i)
              /\ Char(s, i) \in EscapedSet => Char(ret, at - 1) = "\\"
        /\ s = "" => ret = ""
        /\ EscapedUpTo(s, Len(s)) = 0 => ret = s

\* a backslash, a dot and a letter: only the dot gains a backslash
C10_Witness ==
    /\ ReturnedFrom("escape_regex")
    /\ arg.s = "\\.a"
    /\ ret = "\\\\.a"
----------------------------------------------------------------------------
(* The claims about partitioning, configuration and progress, checked under
   Spec *)

RECURSIVE Concat(_)
Concat(ss) == IF ss = <<>> THEN <<>> ELSE Head(ss) \o Concat(Tail(ss))

Ceil(a, b) == (a + b - 1) \div b

\* the partition step has run and the run has not returned normally
Partitioned == pc \in {"spawn", "join", "open", "recv", "panicked"}

ChunkPartition ==
    /\ Len(chunks) <= config.cores
    /\ handles <= config.cores
    /\ \A i \in 1..Len(chunks) : Len(chunks[i]) <= Ceil(Total, config.cores)
    /\ Concat(chunks) = files_to_process

\* C11: for every total >= 0 and thread count >= 1 the partition step yields
\* at most thread-count chunks (and workers), each of at most
\* ceil(total / thread count) paths, whose concatenation in index order is
\* the collected sequence.
C11_ChunkPartitioning ==
    (Partitioned /\ config.cores >= 1) => (pc # "panicked" /\ ChunkPartition)

\* the strings that denote a positive integer
PositiveInteger(s) ==
    /\ s # ""
    /\ \A i \in 1..Len(s) : IsDigit(Char(s, i))
    /\ DecimalValue(s, 0) > 0

\* C12: a thread count that is not a positive integer is rejected with a
\* message before the tree is scanned, and process_file_contexts is never
\* entered with cores = 0.
C12_ThreadCountRejected ==
    /\ (pc # "main" /\ ~PositiveInteger(matches.threads))
           => (pc = "config_error" /\ error # "")
    /\ pc \notin {"main", "config_error"} => config.cores >= 1

RECURSIVE SumTo(_, _)
SumTo(f, n) == IF n = 0 THEN 0 ELSE f[n] + SumTo(f, n - 1)

\* the paths the workers have visited so far
Visited == SumTo(wpos, Len(wpos))

\* C13: the counter is incremented exactly once per visited path, whatever
\* the path is; it never decreases within a run, never exceeds total, and
\* equals total once all workers have finished.
C13_CounterOncePerPath ==
    /\ [](/\ current = Visited
          /\ current <= Total
          /\ (chunks # <<>> /\ AllWorkersEnded) => current = Total)
    /\ [][pc' # "main" => current' >= current]_vars

\* all workers have finished after visiting a path that is not UTF-8, a path
\* already in the contexts file and a missing path
C13_Witness ==
    /\ chunks # <<>>
    /\ AllWorkersEnded
    /\ current = 3
    /\ \E i, j, k \in 1..Total :
          /\ ~files_to_process[i].utf8
          /\ files_to_process[j].utf8 /\ ~MissingAt(j)
          /\ MissingAt(k)
\* C14: when the progress display is on, under fair scheduling the reporter
\* eventually samples a count >= total, draws the bar at total/total and
\* ends its loop, in every run that does not fail or panic.
C14_ReporterReachesTotal ==
    [](rpc = "loop" => <>(\/ rpc = "done" /\ bar[1] = Total /\ bar[2] = Total
                          \/ pc \in {"failed", "panicked"}))

\* C15: once finish has drawn the final bar, at total/total, the reporter
\* draws no further bar: in a returned run that shows progress the bar on
\* screen is the one finish drew.
C15_ReporterStoppedAtFinish ==
    (pc = "done" /\ show_progress) => bar = <<Total, Total, "finish">>

\* C17: a bar is drawn, and the reporter exists, only in a run that is not
\* silent and has a missing entry, and the total handed to progress_bar is
\* never 0.
C17_BarOnlyWhenShowing ==
    /\ bar # <<>> => (~config.silent /\ missing_count > 0 /\ bar[2] > 0)
    /\ rpc # "none" => (show_progress /\ ~config.silent /\ missing_count > 0)

\* the reporter has drawn a bar below 100% while a worker is still running
C17_Witness ==
    /\ bar # <<>>
    /\ bar[3] = "reporter"
    /\ 0 < bar[1] /\ bar[1] < bar[2]
    /\ \E w \in 1..handles : wpc[w] = "run"
\* C16 speaks of a run in which a worker failed. No such state is reachable:
\* process_chunk and the classifiers return Ok on every path, and the send
\* fails only after the receiver is dropped, which happens once
\* process_file_contexts has returned, after every worker was joined.
NoWorkerFails == \A w \in 1..handles : wpc[w] # "err"

\* the number of occurrences of x in the sequence seq
Count(seq, x) == Cardinality({k \in 1..Len(seq) : seq[k] = x})

\* the contexts file as the run found it
LinesBefore == SubSeq(file_lines, 1, Len(file_lines) - Len(appended))

\* the lines a run owes, computed from the tree, the mode, the partition,
\* the filesystem type and the contexts file alone, one path after the other
RECURSIVE OwedLines(_, _, _)
OwedLines(cfg, files, existing) ==
    IF files = <<>> THEN <<>>
    ELSE visit_path(Head(files), cfg, get_partition_name(cfg), existing)
         \o OwedLines(cfg, Tail(files), existing)

Owed ==
    LET cfg == [mode |-> config.mode, fstype |-> config.fstype,
                partition |-> config.partition, cores |-> 1, silent |-> TRUE]
    IN  OwedLines(cfg, collect_files_to_process(cfg, tree),
                  read_existing_contexts(TRUE, LinesBefore))

\* C18: the multiset of lines a successful run with at least one missing
\* entry appends depends only on the tree, the contexts file, the mode, the
\* partition and the filesystem type: not on the thread count >= 1, the
\* interleaving or the silent flag.
C18_SameLinesWhateverTheSchedule ==
    (pc = "done" /\ config.cores >= 1 /\ missing_count >= 1) =>
        /\ Len(appended) = Len(Owed)
        /\ \A k \in 1..Len(appended) :
              Count(appended, appended[k]) = Count(Owed, appended[k])

\* a run of two workers that has appended its lines in another order than
\* that of the collected sequence
C18_Witness ==
    /\ pc = "done"
    /\ handles = 2
    /\ Len(appended) >= 2
    /\ appended # Owed

\* C19: with total >= 1 and thread count >= 1 no send fails, every batch
\* sent is in the channel when the workers have been joined, the receive
\* loop has read one batch per chunk when it ends, and under fair scheduling
\* process_file_contexts returns.
C19_FanInCompletes ==
    /\ [](NoWorkerFails)
    /\ [](pc = "open" => Len(channel) = Len(chunks))
    /\ []((pc = "done" /\ chunks # <<>>)
              => (received = Len(chunks) /\ channel = <<>> /\ batch = <<>>))
    /\ [](pc = "partition" /\ config.cores >= 1 /\ Total >= 1
              => <>(pc \in Returned))

\* a run of two workers has returned Ok after reading two batches
C19_Witness ==
    /\ pc = "done"
    /\ handles = 2
    /\ received = 2
    /\ appended # <<>>

====
